---- MODULE Spec2Model ----
(***************************************************************************)
(* MultiAspectSampler (helpers/multiaspect/sampler.py): the bucketed batch *)
(* sampler, its generator __iter__, lazy validation, bucket rotation,      *)
(* epoch rollover and save/load of its state.                              *)
(*                                                                         *)
(* An image path is a number of 1..NumItems, a bucket key is one of the    *)
(* strings of BucketNames.  aspect_ratio_bucket_indices, a dict in the     *)
(* source, is the sequence of its entries in insertion order; the list of  *)
(* images of one entry is kept as a set, because the sampler reads it only *)
(* through len(), membership, random.sample and random.choice.             *)
(***************************************************************************)
EXTENDS Integers, Sequences, FiniteSets, TLC

\* Bounds of the model.
NumItems == 4
NumBuckets == 3
MaxBatch == 2
MaxInvalid == 1
MaxEpoch == 3
MaxFlips == 1
MaxReloads == 1

BucketNames == <<"0.5", "0.75", "1.0", "1.5", "2.0", "2.5">>

Items == 1 .. NumItems

\* Python's None, for current_bucket and for a rejected image path.
None == -1

NoError == "none"
EmptyUniverse == "No images found in the dataset."
IndexError == "IndexError"

Range(s) == {s[i] : i \in DOMAIN s}

\* All orderings of the set S as sequences without repetition.
Perms(S) == {p \in [1 .. Cardinality(S) -> S] : \A i, j \in 1 .. Cardinality(S) : p[i] = p[j] => i = j}

\* list.index(e): position of the first occurrence, counted from 0.
ListIndex(s, e) == (CHOOSE i \in 1 .. Len(s) : s[i] = e /\ \A j \in 1 .. (i - 1) : s[j] # e) - 1

\* list.remove(e): the list without the first occurrence of e.
ListRemove(s, e) == LET i == ListIndex(s, e) + 1 IN SubSeq(s, 1, i - 1) \o SubSeq(s, i + 1, Len(s))

\* A dict as a function on the set of its keys.
EmptyDict == [x \in {} |-> ""]
DictPut(d, k, v) == [x \in (DOMAIN d) \cup {k} |-> IF x = k THEN v ELSE d[x]]

-----------------------------------------------------------------------------
(* The Bucket Store: bucket_manager.aspect_ratio_bucket_indices.           *)

HasKey(index, k) == \E i \in 1 .. Len(index) : index[i].key = k

Images(index, k) == index[CHOOSE i \in 1 .. Len(index) : index[i].key = k].images

\* BucketManager.remove_image: drop the image from the entry of that bucket.
RemoveImage(index, image_path, b) == [i \in 1 .. Len(index) |-> IF index[i].key = b THEN [index[i] EXCEPT !.images = @ \ {image_path}] ELSE index[i]]

\* BucketManager.handle_small_image: the image leaves the index (the backing
\* resource may or may not be deleted, which the sampler never observes).
HandleSmallImage(index, image_path, b) == RemoveImage(index, image_path, b)

\* BucketManager.handle_incorrect_bucket: re-file the image under the bucket
\* of its true ratio, adding the entry when the key is new.
HandleIncorrectBucket(index, image_path, b, actual_bucket) == LET removed == RemoveImage(index, image_path, b) IN IF HasKey(removed, actual_bucket) THEN [i \in 1 .. Len(removed) |-> IF removed[i].key = actual_bucket THEN [removed[i] EXCEPT !.images = @ \cup {image_path}] ELSE removed[i]] ELSE Append(removed, [key |-> actual_bucket, images |-> {image_path}])

\* BucketManager.is_seen: the image is a key of the seen set.
IsSeen(seen, image_path) == image_path \in DOMAIN seen

\* load_buckets: list(aspect_ratio_bucket_indices.keys()).
LoadBuckets(index) == [i \in 1 .. Len(index) |-> index[i].key]

\* _get_unseen_images(bucket).
GetUnseenImages(index, seen, b) == {image \in Images(index, b) : ~IsSeen(seen, image)}

\* _get_unseen_images() over every bucket of the store.
GetUnseenImagesAll(index, seen) == UNION {GetUnseenImages(index, seen, index[i].key) : i \in 1 .. Len(index)}

-----------------------------------------------------------------------------
(* Lazy validation.  resource[x] is what the backend holds for image x:    *)
(* whether it exists, whether it decodes, whether both sides reach         *)
(* minimum_image_size, and str(round(width / height, 2)).                  *)

Valid == "valid"
Missing == "missing"
Undecodable == "undecodable"
TooSmall == "too small"
WrongBucket == "wrong bucket"

\* The first check of _process_single_image that the image fails in bucket b.
Verdict(res, image_path, b) == IF ~res[image_path].exists THEN Missing ELSE IF ~res[image_path].decodes THEN Undecodable ELSE IF ~res[image_path].large THEN TooSmall ELSE IF res[image_path].ratio # b THEN WrongBucket ELSE Valid

\* _process_single_image without the "return None" of line 263: an
\* undersized image is handed to the caller as valid.
ProcessSingleImage_ReturnsSmall(index, res, image_path, b) == LET v == Verdict(res, image_path, b) IN IF v = Missing THEN [path |-> None, index |-> RemoveImage(index, image_path, b)] ELSE IF v = Undecodable THEN [path |-> None, index |-> index] ELSE IF v = TooSmall THEN [path |-> image_path, index |-> HandleSmallImage(index, image_path, b)] ELSE IF v = WrongBucket THEN [path |-> None, index |-> HandleIncorrectBucket(index, image_path, b, res[image_path].ratio)] ELSE [path |-> image_path, index |-> index]

\* _process_single_image without the remove_image of line 246: a missing
\* image stays filed under its bucket.
ProcessSingleImage_KeepsMissing(index, res, image_path, b) == LET v == Verdict(res, image_path, b) IN IF v = Missing THEN [path |-> None, index |-> index] ELSE IF v = Undecodable THEN [path |-> None, index |-> index] ELSE IF v = TooSmall THEN [path |-> None, index |-> HandleSmallImage(index, image_path, b)] ELSE IF v = WrongBucket THEN [path |-> None, index |-> HandleIncorrectBucket(index, image_path, b, res[image_path].ratio)] ELSE [path |-> image_path, index |-> index]

\* _process_single_image: the returned path (None when rejected) and the
\* Bucket Store after the side effect of the failed check.
ProcessSingleImage(index, res, image_path, b) == LET v == Verdict(res, image_path, b) IN IF v = Missing THEN [path |-> None, index |-> RemoveImage(index, image_path, b)] ELSE IF v = Undecodable THEN [path |-> None, index |-> index] ELSE IF v = TooSmall THEN [path |-> None, index |-> HandleSmallImage(index, image_path, b)] ELSE IF v = WrongBucket THEN [path |-> None, index |-> HandleIncorrectBucket(index, image_path, b, res[image_path].ratio)] ELSE [path |-> image_path, index |-> index]

-----------------------------------------------------------------------------
(* Bucket rotation and epoch rollover, on a record s of the sampler's      *)
(* fields.  Each returns the set of records the call can end in (the       *)
(* choices of random.choice); error # NoError is a raised exception.       *)
(* resets counts the completed calls of _reset_buckets and early records   *)
(* that one of them ran while a bucket still had a batch of unseen images. *)

RECURSIVE ChangeBucket(_, _, _)

\* _reset_buckets that counts the epoch twice.
ResetBuckets_CountsTwice(index, bs, s) == IF Cardinality(DOMAIN s.seen_images) = 0 /\ Cardinality(GetUnseenImagesAll(index, s.seen_images)) = 0 THEN {[s EXCEPT !.error = EmptyUniverse]} ELSE ChangeBucket(index, bs, [s EXCEPT !.current_epoch = @ + 2, !.exhausted_buckets = <<>>, !.buckets = LoadBuckets(index), !.seen_images = EmptyDict, !.resets = @ + 1])

\* _reset_buckets with line 128 restoring the buckets it had set aside
\* instead of reading the keys of the Bucket Store.
ResetBuckets_RestoresOldBuckets(index, bs, s) == IF Cardinality(DOMAIN s.seen_images) = 0 /\ Cardinality(GetUnseenImagesAll(index, s.seen_images)) = 0 THEN {[s EXCEPT !.error = EmptyUniverse]} ELSE ChangeBucket(index, bs, [s EXCEPT !.current_epoch = @ + 1, !.exhausted_buckets = <<>>, !.buckets = s.buckets \o s.exhausted_buckets, !.seen_images = EmptyDict, !.resets = @ + 1])

\* _reset_buckets.
ResetBuckets(index, bs, s) == IF Cardinality(DOMAIN s.seen_images) = 0 /\ Cardinality(GetUnseenImagesAll(index, s.seen_images)) = 0 THEN {[s EXCEPT !.error = EmptyUniverse]} ELSE ChangeBucket(index, bs, [s EXCEPT !.current_epoch = @ + 1, !.exhausted_buckets = <<>>, !.buckets = LoadBuckets(index), !.seen_images = EmptyDict, !.resets = @ + 1, !.early = @ \/ \E i \in 1 .. Len(index) : Cardinality(GetUnseenImages(index, s.seen_images, index[i].key)) >= bs])

\* change_bucket that takes the position of the chosen key in
\* available_buckets instead of its position in self.buckets (line 212).
ChooseBucket_IndexInAvailable(s, available_buckets) == IF available_buckets = <<>> THEN {[s EXCEPT !.error = IndexError]} ELSE {[s EXCEPT !.current_bucket = ListIndex(available_buckets, available_buckets[i])] : i \in 1 .. Len(available_buckets)}

\* random.choice(available_buckets) followed by _bucket_name_to_id.
ChooseBucket(s, available_buckets) == IF available_buckets = <<>> THEN {[s EXCEPT !.error = IndexError]} ELSE {[s EXCEPT !.current_bucket = ListIndex(s.buckets, available_buckets[i])] : i \in 1 .. Len(available_buckets)}

\* change_bucket with _get_next_bucket.
ChangeBucket(index, bs, s) == LET available_buckets == SelectSeq(s.buckets, LAMBDA b : b \notin Range(s.exhausted_buckets)) IN IF available_buckets = <<>> THEN UNION {IF r.error # NoError THEN {r} ELSE ChooseBucket(r, r.buckets) : r \in ResetBuckets(index, bs, s)} ELSE ChooseBucket(s, available_buckets)

\* move_to_exhausted.
MoveToExhausted(s) == LET b == s.buckets[s.current_bucket + 1] IN [s EXCEPT !.exhausted_buckets = Append(@, b), !.buckets = ListRemove(@, b)]

-----------------------------------------------------------------------------
(* Save and load.                                                          *)

\* save_state: the snapshot handed to the State Store.
SaveState(index, bs, s) == [aspect_ratio_bucket_indices |-> index, buckets |-> s.buckets, exhausted_buckets |-> s.exhausted_buckets, batch_size |-> bs, current_bucket |-> s.current_bucket, seen_images |-> s.seen_images, current_epoch |-> s.current_epoch]

\* BucketStateManager.load_state of a store that holds nothing.
NoState == EmptyDict

\* BucketStateManager.load_seen_images: nothing was written to that file.
LoadSeenImages == EmptyDict

\* load_states without lines 91-92: the saved seen_images are not restored.
LoadStates_ForgetsSeen(index, previous_state) == [buckets |-> LoadBuckets(index), exhausted_buckets |-> IF "exhausted_buckets" \in DOMAIN previous_state THEN previous_state.exhausted_buckets ELSE <<>>, current_epoch |-> IF "current_epoch" \in DOMAIN previous_state THEN previous_state.current_epoch ELSE 1, seen_images |-> LoadSeenImages, current_bucket |-> None, error |-> NoError, resets |-> 0, early |-> FALSE]

\* load_states.
LoadStates(index, previous_state) == [buckets |-> LoadBuckets(index), exhausted_buckets |-> IF "exhausted_buckets" \in DOMAIN previous_state THEN previous_state.exhausted_buckets ELSE <<>>, current_epoch |-> IF "current_epoch" \in DOMAIN previous_state THEN previous_state.current_epoch ELSE 1, seen_images |-> IF "seen_images" \in DOMAIN previous_state THEN previous_state.seen_images ELSE LoadSeenImages, current_bucket |-> None, error |-> NoError, resets |-> 0, early |-> FALSE]

\* __init__: load_states, then change_bucket.
Construct(index, bs, previous_state) == ChangeBucket(index, bs, LoadStates(index, previous_state))

-----------------------------------------------------------------------------
(* State.                                                                  *)

VARIABLES
  aspect_ratio_bucket_indices,  \* the Bucket Store
  resource,                     \* what the data backend holds for each image
  training,                     \* StateTracker.status_training()
  batch_size,
  buckets, exhausted_buckets, seen_images, current_bucket, current_epoch,
  pc,                           \* where the generator __iter__ stands
  error,                        \* the exception the sampler raised, if any
  batch_accumulator, all_buckets_exhausted,
  for_list, for_pos, for_shared, \* the list iterator of "for ... in enumerate(self.buckets)"
  idx, bucket, available_images, samples, to_yield,
  ypos,                         \* position of "for example in batch_accumulator"
  suspended,                    \* the generator is not running (not started, or at a yield)
  \* history
  acc_from,                     \* the bucket each accumulated path was drawn from
  yield_count,                  \* batch-path yields of each path since the last rollover
  last,                         \* the last yield
  checked,                      \* the last call of _process_single_image
  rejected,                     \* <<path, bucket>> found missing or mis-bucketed this epoch
  exh_check,                    \* the last exhaustion check of __iter__
  loaded_seen, loaded_exhausted, \* what load_states restored, until the next rollover
  resets, early, base_epoch, flips, reloads,
  rolled,                       \* the last step completed a call of _reset_buckets
  snapshot,                     \* what save_state wrote, while the sampler built from it has not run
  sweep_from,                   \* current_epoch when the sweep in progress, or the dry sweep just ended, began
  epoch_folded                  \* current_epoch is kept only up to MaxEpoch (no code reads it)

sampler_vars == <<buckets, exhausted_buckets, seen_images, current_bucket, current_epoch, resets, early, error>>

sweep_vars == <<all_buckets_exhausted, for_list, for_pos, for_shared>>

local_vars == <<idx, bucket, available_images, samples, to_yield, ypos>>

env_vars == <<resource, training, batch_size, flips, epoch_folded>>

load_vars == <<loaded_seen, loaded_exhausted, base_epoch, reloads>>

vars == <<aspect_ratio_bucket_indices, resource, training, batch_size, buckets, exhausted_buckets, seen_images, current_bucket, current_epoch, pc, error, batch_accumulator, all_buckets_exhausted, for_list, for_pos, for_shared, idx, bucket, available_images, samples, to_yield, ypos, suspended, acc_from, yield_count, last, checked, rejected, exh_check, loaded_seen, loaded_exhausted, resets, early, base_epoch, flips, reloads, rolled, snapshot, sweep_from, epoch_folded>>

\* The sampler object as a record, and its assignment back to the fields.
Self == [buckets |-> buckets, exhausted_buckets |-> exhausted_buckets, seen_images |-> seen_images, current_bucket |-> current_bucket, current_epoch |-> current_epoch, error |-> NoError, resets |-> resets, early |-> early]

Assign(r) ==
  /\ buckets' = r.buckets
  /\ exhausted_buckets' = r.exhausted_buckets
  /\ seen_images' = r.seen_images
  /\ current_bucket' = r.current_bucket
  /\ current_epoch' = IF epoch_folded /\ r.current_epoch > MaxEpoch THEN MaxEpoch ELSE r.current_epoch
  /\ error' = r.error
  /\ resets' = IF epoch_folded /\ r.resets > MaxEpoch THEN MaxEpoch ELSE r.resets
  /\ early' = r.early

\* The bound on current_epoch: a step that would pass it is not taken, unless
\* the counter is folded.
Bounded(r) == epoch_folded \/ r.current_epoch <= MaxEpoch

NoYield == [id |-> None, from |-> "", path |-> "none"]

NoCheck == [id |-> None, bucket |-> "", verdict |-> "none"]

NoExhaustion == [checked |-> "", unseen |-> 0, moved |-> ""]

ZeroCounts == [x \in Items |-> 0]

\* A rollover ends the epoch that the per-epoch history describes.
EpochHistory(rolled_over) ==
  /\ yield_count' = IF rolled_over THEN ZeroCounts ELSE yield_count
  /\ rejected' = IF rolled_over THEN {} ELSE rejected
  /\ loaded_seen' = IF rolled_over THEN {} ELSE loaded_seen
  /\ loaded_exhausted' = IF rolled_over THEN {} ELSE loaded_exhausted
  /\ rolled' = rolled_over
  /\ UNCHANGED <<base_epoch, reloads>>

\* The locals of __iter__ that are dead between two buckets of a sweep.
ClearLocals ==
  /\ idx' = 0
  /\ bucket' = ""
  /\ available_images' = {}
  /\ samples' = <<>>
  /\ to_yield' = <<>>
  /\ ypos' = 0

-----------------------------------------------------------------------------
(* Initial states: a sampler constructed over a Bucket Store of at most    *)
(* NumBuckets buckets and NumItems images, with no saved state.            *)

\* What the backend holds for an image that passes validation in bucket k.
ValidResource(k) == [exists |-> TRUE, decodes |-> TRUE, large |-> TRUE, ratio |-> k]

\* What the backend can hold for an image that fails validation in bucket k,
\* one resource for each check of _process_single_image it can fail.
InvalidResources(k) ==
  {[exists |-> FALSE, decodes |-> FALSE, large |-> FALSE, ratio |-> k],
   [exists |-> TRUE, decodes |-> FALSE, large |-> FALSE, ratio |-> k],
   [exists |-> TRUE, decodes |-> TRUE, large |-> FALSE, ratio |-> k]}
  \cup {[exists |-> TRUE, decodes |-> TRUE, large |-> TRUE, ratio |-> BucketNames[j]] : j \in {i \in 1 .. NumBuckets : BucketNames[i] # k}}

\* The images are interchangeable, so they are filed in bucket order.
Placements(n, nk) == {f \in [1 .. n -> 1 .. nk] : \A i, j \in 1 .. n : i < j => f[i] <= f[j]}

InitialIndex(n, nk, f) == [i \in 1 .. nk |-> [key |-> BucketNames[i], images |-> {x \in 1 .. n : f[x] = i}]]

\* The backends in which the images of invalid fail validation and the
\* others pass.
Backends(n, f, invalid) == {[x \in 1 .. n |-> IF x \in invalid THEN bad[x] ELSE ValidResource(BucketNames[f[x]])] : bad \in [invalid -> UNION {InvalidResources(BucketNames[f[x]]) : x \in invalid}]}

InitState(fold) ==
  \E bs \in 1 .. MaxBatch, nk \in 0 .. NumBuckets, n \in 0 .. NumItems :
    \E f \in Placements(n, nk) :
      \E invalid \in {v \in SUBSET (1 .. n) : Cardinality(v) <= MaxInvalid} :
       \E res \in Backends(n, f, invalid) :
        /\ \A x \in invalid : res[x] \in InvalidResources(BucketNames[f[x]])
        /\ aspect_ratio_bucket_indices = InitialIndex(n, nk, f)
        /\ resource = res
        /\ batch_size = bs
        /\ training = TRUE
        /\ \E r \in Construct(InitialIndex(n, nk, f), bs, NoState) :
             /\ buckets = r.buckets
             /\ exhausted_buckets = r.exhausted_buckets
             /\ seen_images = r.seen_images
             /\ current_bucket = r.current_bucket
             /\ current_epoch = r.current_epoch
             /\ error = r.error
             /\ resets = r.resets
             /\ pc = IF r.error = NoError THEN "top" ELSE "raised"
             /\ base_epoch = r.current_epoch - r.resets
        /\ early = FALSE
        /\ batch_accumulator = <<>>
        /\ all_buckets_exhausted = TRUE
        /\ for_list = <<>>
        /\ for_pos = 0
        /\ for_shared = FALSE
        /\ idx = 0
        /\ bucket = ""
        /\ available_images = {}
        /\ samples = <<>>
        /\ to_yield = <<>>
        /\ ypos = 0
        /\ suspended = TRUE
        /\ acc_from = <<>>
        /\ yield_count = ZeroCounts
        /\ last = NoYield
        /\ checked = NoCheck
        /\ rejected = {}
        /\ exh_check = NoExhaustion
        /\ loaded_seen = {}
        /\ loaded_exhausted = {}
        /\ flips = 0
        /\ reloads = 0
        /\ rolled = FALSE
        /\ snapshot = NoState
        /\ sweep_from = 0
        /\ epoch_folded = fold

Init == InitState(FALSE)

-----------------------------------------------------------------------------
(* The generator __iter__, one action per stretch of code between two      *)
(* points where its state can be observed.                                 *)

\* Lines 299-302 when not training: _yield_random_image and the yield.
\* random.choice raises IndexError on an empty bucket.
YieldRandomImage ==
  /\ pc = "top"
  /\ ~training
  /\ \/ /\ buckets = <<>>
        /\ error' = IndexError
        /\ pc' = "raised"
        /\ UNCHANGED <<last, suspended>>
     \/ \E i \in 1 .. Len(buckets) :
          LET images == Images(aspect_ratio_bucket_indices, buckets[i])
          IN IF images = {}
             THEN /\ error' = IndexError
                  /\ pc' = "raised"
                  /\ UNCHANGED <<last, suspended>>
             ELSE \E image_path \in images :
                    /\ last' = [id |-> image_path, from |-> buckets[i], path |-> "random"]
                    /\ suspended' = TRUE
                    /\ UNCHANGED <<pc, error>>
  /\ UNCHANGED <<aspect_ratio_bucket_indices, env_vars, load_vars, sweep_vars, local_vars>>
  /\ UNCHANGED <<buckets, exhausted_buckets, seen_images, current_bucket, current_epoch, resets, early>>
  /\ UNCHANGED <<batch_accumulator, acc_from, yield_count, checked, rejected, exh_check, sweep_from>>
  /\ rolled' = FALSE
  /\ snapshot' = NoState

\* Lines 299-305 when training: a new sweep over self.buckets begins.
StartSweep ==
  /\ pc = "top"
  /\ training
  /\ all_buckets_exhausted' = TRUE
  /\ for_list' = buckets
  /\ for_pos' = 0
  /\ for_shared' = TRUE
  /\ pc' = "for"
  /\ suspended' = FALSE
  /\ UNCHANGED <<aspect_ratio_bucket_indices, env_vars, load_vars, local_vars, sampler_vars>>
  /\ UNCHANGED <<batch_accumulator, acc_from, yield_count, checked, rejected, exh_check>>
  /\ last' = NoYield
  /\ rolled' = FALSE
  /\ snapshot' = NoState
  /\ sweep_from' = current_epoch

\* Lines 305-306: the for loop takes its next bucket.  The iterated list
\* is the object self.buckets named when the sweep began.
NextBucket ==
  /\ pc = "for"
  /\ for_pos < Len(for_list)
  /\ idx' = for_pos
  /\ bucket' = for_list[for_pos + 1]
  /\ for_pos' = for_pos + 1
  /\ available_images' = GetUnseenImages(aspect_ratio_bucket_indices, seen_images, for_list[for_pos + 1])
  /\ pc' = "while"
  /\ UNCHANGED <<samples, to_yield, ypos, all_buckets_exhausted, for_list, for_shared, suspended>>
  /\ UNCHANGED <<aspect_ratio_bucket_indices, env_vars, load_vars, sampler_vars>>
  /\ UNCHANGED <<batch_accumulator, acc_from, yield_count, last, checked, rejected, snapshot, sweep_from>>
  /\ exh_check' = NoExhaustion
  /\ rolled' = FALSE

\* Lines 333-334: the for loop is over.
EndSweep ==
  /\ pc = "for"
  /\ for_pos >= Len(for_list)
  /\ IF all_buckets_exhausted
     THEN \E r \in ResetBuckets(aspect_ratio_bucket_indices, batch_size, Self) :
            /\ Bounded(r)
            /\ Assign(r)
            /\ pc' = IF r.error = NoError THEN "top" ELSE "raised"
            /\ EpochHistory(r.resets # resets)
     ELSE /\ pc' = "top"
          /\ rolled' = FALSE
          /\ UNCHANGED <<sampler_vars, load_vars, yield_count, rejected>>
  /\ sweep_from' = IF all_buckets_exhausted THEN sweep_from ELSE 0
  /\ UNCHANGED snapshot
  /\ for_list' = <<>>
  /\ for_pos' = 0
  /\ for_shared' = FALSE
  /\ UNCHANGED <<all_buckets_exhausted, local_vars, suspended>>
  /\ UNCHANGED <<aspect_ratio_bucket_indices, env_vars>>
  /\ UNCHANGED <<batch_accumulator, acc_from, last, checked>>
  /\ exh_check' = NoExhaustion

\* Lines 307-309: the bucket can fill a batch; random.sample draws.
DrawSamples ==
  /\ pc = "while"
  /\ Cardinality(available_images) >= batch_size
  /\ all_buckets_exhausted' = FALSE
  /\ \E drawn \in {d \in SUBSET available_images : Cardinality(d) = batch_size} :
       \E order \in Perms(drawn) : samples' = order
  /\ to_yield' = <<>>
  /\ pc' = "validate"
  /\ UNCHANGED <<idx, bucket, available_images, ypos, for_list, for_pos, for_shared, suspended>>
  /\ UNCHANGED <<aspect_ratio_bucket_indices, env_vars, load_vars, sampler_vars>>
  /\ UNCHANGED <<batch_accumulator, acc_from, yield_count, last, checked, rejected, exh_check, snapshot, sweep_from>>
  /\ rolled' = FALSE

\* Lines 284-289: one pass of the loop of _validate_and_yield_images_from_samples.
ValidateSample ==
  /\ pc = "validate"
  /\ samples # <<>>
  /\ LET image_path == Head(samples)
         p == ProcessSingleImage(aspect_ratio_bucket_indices, resource, image_path, bucket)
         v == Verdict(resource, image_path, bucket)
     IN /\ aspect_ratio_bucket_indices' = p.index
        /\ to_yield' = IF p.path # None THEN Append(to_yield, p.path) ELSE to_yield
        /\ seen_images' = IF p.path # None /\ training THEN DictPut(seen_images, p.path, bucket) ELSE seen_images
        /\ checked' = [id |-> image_path, bucket |-> bucket, verdict |-> v]
        /\ rejected' = IF v \in {Missing, WrongBucket} THEN rejected \cup {<<image_path, bucket>>} ELSE rejected
  /\ samples' = Tail(samples)
  /\ UNCHANGED <<idx, bucket, available_images, ypos, sweep_vars, suspended, pc, error>>
  /\ UNCHANGED <<buckets, exhausted_buckets, current_bucket, current_epoch, resets, early>>
  /\ UNCHANGED <<env_vars, load_vars, batch_accumulator, acc_from, yield_count, last, exh_check, snapshot, sweep_from>>
  /\ rolled' = FALSE

\* Lines 312-314 and 323-325: the validated samples join the accumulator.
ExtendBatch ==
  /\ pc = "validate"
  /\ samples = <<>>
  /\ batch_accumulator' = batch_accumulator \o to_yield
  /\ acc_from' = acc_from \o [i \in 1 .. Len(to_yield) |-> bucket]
  /\ to_yield' = <<>>
  /\ IF Len(batch_accumulator) + Len(to_yield) >= batch_size
     THEN /\ pc' = "yield"
          /\ ypos' = 1
          /\ UNCHANGED available_images
     ELSE /\ pc' = "while"
          /\ available_images' = GetUnseenImages(aspect_ratio_bucket_indices, seen_images, bucket)
          /\ UNCHANGED ypos
  /\ UNCHANGED <<idx, bucket, samples, sweep_vars, suspended>>
  /\ UNCHANGED <<aspect_ratio_bucket_indices, env_vars, load_vars, sampler_vars>>
  /\ UNCHANGED <<yield_count, last, checked, rejected, exh_check, snapshot, sweep_from>>
  /\ rolled' = FALSE

\* Lines 315-316: one yield of "for example in batch_accumulator".
YieldExample ==
  /\ pc = "yield"
  /\ ypos <= Len(batch_accumulator)
  /\ last' = [id |-> batch_accumulator[ypos], from |-> acc_from[ypos], path |-> "batch"]
  /\ yield_count' = [yield_count EXCEPT ![batch_accumulator[ypos]] = IF @ < 2 THEN @ + 1 ELSE @]
  /\ ypos' = ypos + 1
  /\ suspended' = TRUE
  /\ UNCHANGED <<idx, bucket, available_images, samples, to_yield, sweep_vars, pc>>
  /\ UNCHANGED <<aspect_ratio_bucket_indices, env_vars, load_vars, sampler_vars>>
  /\ UNCHANGED <<batch_accumulator, acc_from, checked, rejected, exh_check, snapshot, sweep_from>>
  /\ rolled' = FALSE

\* Lines 317-321: after the last yield of a batch, change_bucket, the
\* accumulator is reset and the while loop is left by break.  The test of
\* line 328 then reads the list computed before the draw, which holds at
\* least batch_size images, and is false.
AfterBatch ==
  /\ pc = "yield"
  /\ ypos > Len(batch_accumulator)
  /\ \E r \in ChangeBucket(aspect_ratio_bucket_indices, batch_size, Self) :
       /\ Bounded(r)
       /\ Assign(r)
       /\ pc' = IF r.error = NoError THEN "for" ELSE "raised"
       /\ for_shared' = (for_shared /\ r.resets = resets)
       /\ EpochHistory(r.resets # resets)
  /\ batch_accumulator' = <<>>
  /\ acc_from' = <<>>
  /\ ClearLocals
  /\ checked' = NoCheck
  /\ suspended' = FALSE
  /\ UNCHANGED <<all_buckets_exhausted, for_list, for_pos>>
  /\ UNCHANGED <<aspect_ratio_bucket_indices, env_vars, exh_check, snapshot, sweep_from>>
  /\ last' = NoYield

\* Lines 327-331: the while loop ended because the bucket has fewer than
\* batch_size unseen images.
ExhaustedCheck ==
  /\ pc = "while"
  /\ Cardinality(available_images) < batch_size
  /\ IF idx = Len(buckets) - 1
     THEN LET m == MoveToExhausted(Self)
          IN \E r \in ChangeBucket(aspect_ratio_bucket_indices, batch_size, m) :
               /\ Bounded(r)
               /\ Assign(r)
               /\ pc' = IF r.error = NoError THEN "for" ELSE "raised"
               /\ for_list' = IF for_shared THEN m.buckets ELSE for_list
               /\ for_shared' = (for_shared /\ r.resets = resets)
               /\ EpochHistory(r.resets # resets)
               /\ exh_check' = [checked |-> bucket, unseen |-> Cardinality(available_images), moved |-> buckets[current_bucket + 1]]
     ELSE /\ pc' = "for"
          /\ exh_check' = [checked |-> bucket, unseen |-> Cardinality(available_images), moved |-> ""]
          /\ rolled' = FALSE
          /\ UNCHANGED <<sampler_vars, load_vars, yield_count, rejected, for_list, for_shared>>
  /\ UNCHANGED <<snapshot, sweep_from>>
  /\ ClearLocals
  /\ checked' = NoCheck
  /\ UNCHANGED <<all_buckets_exhausted, for_pos, suspended>>
  /\ UNCHANGED <<aspect_ratio_bucket_indices, env_vars, batch_accumulator, acc_from, last>>

-----------------------------------------------------------------------------
(* The consumer.                                                           *)

\* The training loop changes the Mode Flag.
SetMode ==
  /\ pc # "raised"
  /\ flips < MaxFlips
  /\ training' = ~training
  /\ flips' = flips + 1
  /\ UNCHANGED <<aspect_ratio_bucket_indices, resource, batch_size, epoch_folded, load_vars, sampler_vars, sweep_vars, local_vars>>
  /\ UNCHANGED <<pc, suspended, batch_accumulator, acc_from, yield_count, last, checked, rejected, exh_check, rolled, snapshot, sweep_from>>

\* save_state while the generator is suspended, then a fresh sampler is
\* constructed from the snapshot over the same Bucket Store and iterated.
SaveStateAndReload ==
  /\ pc # "raised"
  /\ suspended
  /\ reloads < MaxReloads
  /\ LET previous_state == SaveState(aspect_ratio_bucket_indices, batch_size, Self)
     IN \E r \in Construct(aspect_ratio_bucket_indices, batch_size, previous_state) :
          /\ Bounded(r)
          /\ Assign([r EXCEPT !.early = FALSE])
          /\ pc' = IF r.error = NoError THEN "top" ELSE "raised"
          /\ base_epoch' = previous_state.current_epoch
          /\ loaded_seen' = IF r.resets > 0 THEN {} ELSE DOMAIN previous_state.seen_images
          /\ loaded_exhausted' = IF r.resets > 0 THEN {} ELSE Range(previous_state.exhausted_buckets)
          /\ rejected' = IF r.resets > 0 THEN {} ELSE rejected
          /\ rolled' = (r.resets > 0)
          /\ snapshot' = previous_state
  /\ sweep_from' = 0
  /\ reloads' = reloads + 1
  /\ batch_accumulator' = <<>>
  /\ acc_from' = <<>>
  /\ all_buckets_exhausted' = TRUE
  /\ for_list' = <<>>
  /\ for_pos' = 0
  /\ for_shared' = FALSE
  /\ ClearLocals
  /\ yield_count' = ZeroCounts
  /\ last' = NoYield
  /\ checked' = NoCheck
  /\ exh_check' = NoExhaustion
  /\ UNCHANGED <<aspect_ratio_bucket_indices, env_vars, suspended>>

Next ==
  \/ YieldRandomImage
  \/ StartSweep
  \/ NextBucket
  \/ EndSweep
  \/ DrawSamples
  \/ ValidateSample
  \/ ExtendBatch
  \/ YieldExample
  \/ AfterBatch
  \/ ExhaustedCheck
  \/ SetMode
  \/ SaveStateAndReload

Spec == Init /\ [][Next]_vars

\* Iteration while the Mode Flag reports training throughout.
Iteration ==
  \/ StartSweep
  \/ NextBucket
  \/ EndSweep
  \/ DrawSamples
  \/ ValidateSample
  \/ ExtendBatch
  \/ YieldExample
  \/ AfterBatch
  \/ ExhaustedCheck

\* Training with checkpoints: iteration in training mode, interrupted by
\* save_state and the construction of a fresh sampler from the snapshot.
SpecTraining == Init /\ [][Iteration \/ SaveStateAndReload]_vars

\* Iteration under a Mode Flag that the training loop may change at any
\* moment, without checkpoints.
SpecModes == Init /\ [][Iteration \/ YieldRandomImage \/ SetMode]_vars

\* A sampler whose epoch counter is folded at MaxEpoch, so that a run through
\* any number of rollovers stays within the bound.
InitFolded == InitState(TRUE)

\* A draw with a candidate that does not fail to decode.
DrawsDecodable == DrawSamples /\ \E i \in 1 .. Len(samples') : Verdict(resource, samples'[i], bucket) # Undecodable

\* The generator, once resumed, keeps running until it yields or raises, and
\* random.sample, called again and again on a list that holds a candidate
\* that does not fail to decode, returns some such candidate.
Fairness == WF_vars(Iteration /\ ~suspended) /\ SF_vars(DrawsDecodable)

\* Iteration in training mode to any number of epochs, under Fairness.
SpecProgress == InitFolded /\ [][Iteration]_vars /\ Fairness

-----------------------------------------------------------------------------
(* Properties.                                                             *)

\* C1: when the accumulator is flushed, every path in it was drawn from
\* the same bucket.
C1_BatchFromOneBucket == pc = "yield" => \A i, j \in 1 .. Len(acc_from) : acc_from[i] = acc_from[j]

\* C2: between two rollovers no path is yielded twice, and a path that was
\* yielded is not drawn again.
C2_NoRepeatInEpoch == \A x \in Items : yield_count[x] <= 1 /\ (yield_count[x] >= 1 => x \notin Range(samples))

\* C3: a candidate that _process_single_image rejected, for whichever of
\* the four reasons, is not among the validated samples, not in the
\* accumulator, not a key of seen_images and not yielded, and no error is
\* raised.
C3_RejectedIsDropped ==
  checked.verdict \in {Missing, Undecodable, TooSmall, WrongBucket} =>
    /\ checked.id \notin Range(to_yield)
    /\ checked.id \notin Range(batch_accumulator)
    /\ checked.id \notin DOMAIN seen_images
    /\ last.id # checked.id
    /\ error = NoError

\* C3 witness: a batch is being yielded whose last draw rejected a candidate.
C3_Witness == checked.verdict \in {Missing, Undecodable, TooSmall, WrongBucket} /\ last.path = "batch"

\* C4: an image found missing or mis-bucketed in a draw from bucket b is no
\* longer filed under b, and is neither accumulated nor yielded as a draw
\* from b in the rest of the epoch.
C4_RejectedLeavesBucket ==
  \A pair \in rejected :
    /\ pair[1] \notin Images(aspect_ratio_bucket_indices, pair[2])
    /\ \A i \in 1 .. Len(batch_accumulator) : ~(batch_accumulator[i] = pair[1] /\ acc_from[i] = pair[2])
    /\ ~(last.path = "batch" /\ last.id = pair[1] /\ last.from = pair[2])

\* C4 witness: a mis-bucketed image was re-filed and has since been yielded
\* in the same epoch.
C4_Witness == \E pair \in rejected : last.path = "batch" /\ last.id = pair[1] /\ resource[pair[1]].exists

\* C5: until its first rollover a sampler built from a snapshot neither
\* accumulates nor yields a key of the seen_images it loaded.
C5_ResumeDoesNotRepeat ==
  /\ last.path = "batch" => last.id \notin loaded_seen
  /\ Range(batch_accumulator) \cap loaded_seen = {}

\* C5 witness: the reloaded sampler yields while the loaded seen set is
\* not empty.
C5_Witness == reloads > 0 /\ loaded_seen # {} /\ last.path = "batch"

\* C6: until its first rollover a sampler built from a snapshot yields no
\* path drawn from a bucket of the exhausted_buckets it loaded.
C6_ResumeRespectsExhaustion == last.path = "batch" => last.from \notin loaded_exhausted

\* C7: no bucket key is both in buckets and in exhausted_buckets.
C7_ActiveAndExhaustedDisjoint == Range(buckets) \cap Range(exhausted_buckets) = {}

\* C8: the bucket that the exhaustion check of __iter__ finds short of a
\* batch is the bucket moved to exhausted_buckets.
C8_MovesCheckedBucket == exh_check.checked # "" => exh_check.moved = exh_check.checked

\* C9: no rollover happens during iteration while a bucket of the Bucket
\* Store still holds batch_size unseen images.
C9_RolloverOnlyWhenAllShort == ~early

\* C10: current_epoch is the epoch load_states set plus the number of
\* completed calls of _reset_buckets since.
C10_EpochCountsRollovers == current_epoch = base_epoch + resets

\* C10 witness: a reloaded sampler has rolled over.
C10_Witness == reloads > 0 /\ resets > 0 /\ base_epoch > 1

\* C11: in the state a completed _reset_buckets leaves, seen_images and
\* exhausted_buckets are empty and buckets is the key sequence of the
\* Bucket Store as validation has left it.
C11_RolloverReloads ==
  (rolled /\ error = NoError) =>
    /\ seen_images = EmptyDict
    /\ exhausted_buckets = <<>>
    /\ buckets = LoadBuckets(aspect_ratio_bucket_indices)

\* C11 witness: a rollover picked up a bucket key that validation added
\* (the key stands behind the keys the store began with).
C11_Witness == rolled /\ error = NoError /\ \E i \in 1 .. Len(buckets) : buckets[i] # BucketNames[i]

\* C12: the only exception that leaves the sampler is EmptyUniverse; a
\* sampler constructed over a Bucket Store without keys has raised it; and
\* no _reset_buckets completes over a Bucket Store without images.
C12_OnlyEmptyUniverse ==
  /\ pc = "raised" => error = EmptyUniverse
  /\ LoadBuckets(aspect_ratio_bucket_indices) = <<>> => (pc = "raised" /\ error = EmptyUniverse)
  /\ (rolled /\ error = NoError) => GetUnseenImagesAll(aspect_ratio_bucket_indices, EmptyDict) # {}

\* C13: a pass of the loop of __iter__ that finds the Mode Flag reporting
\* not-training yields one path filed in the Bucket Store, validates
\* nothing, and leaves the sampler's fields, the accumulator and the
\* Bucket Store as they were.
C13_RandomYieldOnly ==
  [][(pc = "top" /\ ~training /\ ~training') =>
       /\ pc' = "top" /\ error' = NoError /\ suspended'
       /\ last'.path = "random"
       /\ \E i \in 1 .. Len(aspect_ratio_bucket_indices) : last'.id \in aspect_ratio_bucket_indices[i].images
       /\ UNCHANGED <<buckets, exhausted_buckets, seen_images, current_bucket, current_epoch>>
       /\ UNCHANGED <<batch_accumulator, aspect_ratio_bucket_indices, checked>>]_vars

\* C14: wherever the sampler has not raised, in particular where
\* move_to_exhausted reads current_bucket and at every yield, buckets is
\* not empty, current_bucket is an index into it, and the key it names is
\* not in exhausted_buckets.
C14_CurrentBucketValid ==
  pc # "raised" =>
    /\ buckets # <<>>
    /\ current_bucket \in 0 .. (Len(buckets) - 1)
    /\ buckets[current_bucket + 1] \notin Range(exhausted_buckets)

\* C14 witness: a yield after move_to_exhausted and change_bucket have run.
C14_Witness == suspended /\ last.path = "batch" /\ exhausted_buckets # <<>> /\ current_bucket > 0

\* C15: the sampler built from a snapshot of save_state, before it runs,
\* has the exhausted_buckets, seen_images, current_epoch and buckets that
\* the snapshot holds.
C15_RoundTrip ==
  (DOMAIN snapshot # {} /\ error = NoError) =>
    /\ exhausted_buckets = snapshot.exhausted_buckets
    /\ seen_images = snapshot.seen_images
    /\ current_epoch = snapshot.current_epoch
    /\ buckets = snapshot.buckets

\* C16: when a sweep of __iter__ that found every bucket short of a batch
\* is over, current_epoch is one more than it was when the sweep began.
C16_DrySweepRollsOnce == (pc = "top" /\ sweep_from # 0) => current_epoch = sweep_from + 1

\* C18: a path yielded by the batch path is a key of seen_images when it
\* is yielded.
C18_YieldedIsSeen == (suspended /\ last.path = "batch") => last.id \in DOMAIN seen_images

\* C19: when the accumulator is flushed it holds batch_size paths, no
\* path twice.
C19_ExactBatch ==
  pc = "yield" =>
    /\ Len(batch_accumulator) = batch_size
    /\ \A i, j \in 1 .. Len(batch_accumulator) : batch_accumulator[i] = batch_accumulator[j] => i = j

\* C17: the re-draw loop of one bucket is left after finitely many rounds,
\* with the accumulator full (the batch is yielded) or the bucket short of
\* a batch (the for loop goes on, or the rollover raises).
C17_RedrawTerminates == (pc \in {"while", "validate"}) ~> (pc \in {"yield", "for", "raised"})

\* C20: the iterator does not roll over forever without yielding: if
\* _reset_buckets completes again and again, then again and again the
\* generator yields.
C20_Progress == ([]<>rolled) => ([]<>suspended)

====
